---- MODULE Spec2Model ----
(***************************************************************************)
(* Model of top100.py, the Streamlit dashboard "Analysis of the Largest    *)
(* Companies by Revenue".  The script is re-run from top to bottom on      *)
(* every user interaction.  One run (a render cycle) is modelled as the    *)
(* sequence of steps  load -> detect -> preview -> summary -> filter ->    *)
(* scatter -> bar -> pie ; st.stop() and an uncaught exception end the     *)
(* run.  Text cells are sequences of one-character strings so that the     *)
(* string operations of load_data are computed, not assumed.               *)
(***************************************************************************)
EXTENDS Integers, Sequences, FiniteSets, TLC

VARIABLES
    uploaded_file,  \* <<>> (None) or <<csv>>: the value of st.file_uploader
    disk,           \* <<>> (no file) or <<csv>>: the file at default_path
    cache,          \* st.cache_data's table of load_data: key -> DataFrame
    session,        \* front-end state of the industry multiselect
    width,          \* front-end state of the "growth_width" slider
    pc,             \* position of the script run
    data,           \* the DataFrame bound to `data`
    company_col,    \* the detected column name, <<>> for None
    error,          \* why the run ended early, "none" otherwise
    shown,          \* names of the views handed to the page in this run
    out,            \* the values of those views
    first,          \* history: key -> DataFrame of the first successful load
    reparsed        \* history: load_data's body ran for a key already loaded

vars == <<uploaded_file, disk, cache, session, width, pc, data, company_col,
          error, shown, out, first, reparsed>>

----------------------------------------------------------------------------
(* Bounds of the model. *)

MaxTextLen == 3
MaxRows == 12
NumHQ == 6

(* Program constants. *)
HeadN == 10
TopK == 5
SliderMin == 4
SliderMax == 12
SliderDefault == 8

----------------------------------------------------------------------------
(* Characters and text. *)

Range(s) == {s[i] : i \in 1..Len(s)}

Digits == <<"0", "1", "2", "3", "4", "5", "6", "7", "8", "9">>
IsDigit(c) == \E i \in 1..10 : Digits[i] = c
DigitVal(c) == (CHOOSE i \in 1..10 : Digits[i] = c) - 1

UpperCase == <<"A","B","C","D","E","F","G","H","I","J","K","L","M",
               "N","O","P","Q","R","S","T","U","V","W","X","Y","Z">>
LowerCase == <<"a","b","c","d","e","f","g","h","i","j","k","l","m",
               "n","o","p","q","r","s","t","u","v","w","x","y","z">>

\* str.lower(), one character
LowerChar(c) ==
    IF \E i \in 1..26 : UpperCase[i] = c
    THEN LowerCase[CHOOSE i \in 1..26 : UpperCase[i] = c]
    ELSE c

\* str.lower()
lower(s) == [i \in 1..Len(s) |-> LowerChar(s[i])]

\* the `in` operator on two strings: sub occurs in s
Contains(s, sub) ==
    \E i \in 1..(Len(s) - Len(sub) + 1) : SubSeq(s, i, i + Len(sub) - 1) = sub

\* Series.str.replace(c, '', regex=True) on one cell: every occurrence goes
StrReplace(t, c) == SelectSeq(t, LAMBDA ch : ch # c)

RECURSIVE DigitsValue(_)
DigitsValue(t) ==
    IF t = <<>> THEN 0
    ELSE 10 * DigitsValue(SubSeq(t, 1, Len(t) - 1)) + DigitVal(t[Len(t)])

AllDigits(t) == \A i \in 1..Len(t) : IsDigit(t[i])

Unsigned(t) == IF t # <<>> /\ t[1] = "-" THEN Tail(t) ELSE t
Sign(t) == IF t # <<>> /\ t[1] = "-" THEN -1 ELSE 1

\* The cells of the model are written with digits, ',', '%', '.', '-' and
\* letters; on those, int(str) is an optional sign and at least one digit
IsIntText(t) == Unsigned(t) # <<>> /\ AllDigits(Unsigned(t))
IntVal(t) == Sign(t) * DigitsValue(Unsigned(t))

\* float(str): an optional sign, digits with at most one point, one digit
\* at least
IsFloatText(t) ==
    LET u == Unsigned(t)
        d == StrReplace(u, ".")
    IN  /\ d # <<>>
        /\ AllDigits(d)
        /\ Len(u) - Len(d) <= 1

\* A float is kept exactly: m * 10^-e with no trailing zero in the fraction.
NaNFloat == [nan |-> TRUE, m |-> 0, e |-> 0]

RECURSIVE Normalize(_, _)
Normalize(m, e) ==
    IF m = 0 THEN [nan |-> FALSE, m |-> 0, e |-> 0]
    ELSE IF e > 0 /\ m % 10 = 0 THEN Normalize(m \div 10, e - 1)
    ELSE [nan |-> FALSE, m |-> m, e |-> e]

PointAt(u) == IF \E i \in 1..Len(u) : u[i] = "."
              THEN CHOOSE i \in 1..Len(u) : u[i] = "."
              ELSE Len(u) + 1

FloatVal(t) ==
    LET u == Unsigned(t)
        d == StrReplace(u, ".")
        frac == IF PointAt(u) > Len(u) THEN 0 ELSE Len(u) - PointAt(u)
    IN  Normalize(Sign(t) * DigitsValue(d), frac)

----------------------------------------------------------------------------
(* Column names. *)

RevenueCol == <<"R","e","v","e","n","u","e"," ","(","U","S","D"," ",
                "m","i","l","l","i","o","n","s",")">>
GrowthCol == <<"R","e","v","e","n","u","e"," ","g","r","o","w","t","h">>
IndustryCol == <<"I","n","d","u","s","t","r","y">>
HeadquartersCol == <<"H","e","a","d","q","u","a","r","t","e","r","s">>
RankCol == <<"R","a","n","k">>
NameCol == <<"N","a","m","e">>
CompanyCol == <<"C","O","M","P","A","N","Y">>
FirmCol == <<"F","i","r","m">>
UnnamedCol == <<"U","n","n","a","m","e","d",":"," ","0">>

NameKey == <<"n","a","m","e">>
CompanyKey == <<"c","o","m","p","a","n","y">>

----------------------------------------------------------------------------
(* pd.read_csv and load_data. *)

\* A CSV file is [columns, rows]; a row holds the raw text of its cells:
\* rank (a number), rev and growth (character sequences), industry and hq
\* (strings); an empty cell is <<>> or "".
NaN == "<NaN>"

\* read_csv's type inference for one column: every cell empty or a number
\* makes a numeric column, on which the .str accessor raises.
NumericColumn(cells) ==
    /\ cells # <<>>
    /\ \A i \in 1..Len(cells) : cells[i] = <<>> \/ IsFloatText(cells[i])

Column(rows, f) == [i \in 1..Len(rows) |-> rows[i][f]]

\* .str.replace(',', '', regex=True).astype(int) on one cell
RevenueCell(t) == IntVal(StrReplace(t, ","))
RevenueCellOk(t) == t # <<>> /\ IsIntText(StrReplace(t, ","))

\* Variant: the percentage turned into a fraction (divided by 100)
GrowthCellAsFraction(t) ==
    IF t = <<>> THEN NaNFloat
    ELSE LET v == FloatVal(StrReplace(t, "%")) IN Normalize(v.m, v.e + 2)

\* .str.replace('%', '', regex=True).astype(float) on one cell; a missing
\* cell stays NaN
GrowthCell(t) == IF t = <<>> THEN NaNFloat ELSE FloatVal(StrReplace(t, "%"))
GrowthCellOk(t) == t = <<>> \/ IsFloatText(StrReplace(t, "%"))

TextCell(s) == IF s = "" THEN NaN ELSE s

Failure(e) == [ok |-> FALSE, err |-> e, df |-> [columns |-> <<>>, rows |-> <<>>]]

ConvertRows(rows) ==
    [i \in 1..Len(rows) |->
        [rank |-> rows[i].rank,
         rev |-> RevenueCell(rows[i].rev),
         growth |-> GrowthCell(rows[i].growth),
         industry |-> TextCell(rows[i].industry),
         hq |-> TextCell(rows[i].hq)]]

load_data(csv) ==
    LET rev == Column(csv.rows, "rev")
        gro == Column(csv.rows, "growth")
    IN  IF RevenueCol \notin Range(csv.columns) THEN Failure("KeyError")
        ELSE IF NumericColumn(rev) THEN Failure("FormatError")
        ELSE IF \E i \in 1..Len(rev) : ~RevenueCellOk(rev[i])
             THEN Failure("FormatError")
        ELSE IF GrowthCol \notin Range(csv.columns) THEN Failure("KeyError")
        ELSE IF NumericColumn(gro) THEN Failure("FormatError")
        ELSE IF \E i \in 1..Len(gro) : ~GrowthCellOk(gro[i])
             THEN Failure("FormatError")
        ELSE [ok |-> TRUE, err |-> "none",
              df |-> [columns |-> csv.columns, rows |-> ConvertRows(csv.rows)]]

----------------------------------------------------------------------------
(* The derived views. *)

Min(a, b) == IF a <= b THEN a ELSE b

\* DataFrame.head(n) on the rows
head(rows, n) == SubSeq(rows, 1, Min(n, Len(rows)))

\* Series.unique(): the distinct values in order of first appearance, a
\* missing value included
RECURSIVE unique(_)
unique(col) ==
    IF col = <<>> THEN <<>>
    ELSE LET u == unique(SubSeq(col, 1, Len(col) - 1))
             v == col[Len(col)]
         IN  IF v \in Range(u) THEN u ELSE Append(u, v)

\* Variant: membership by ==, under which a missing value equals nothing
isin_by_equality(v, values) == v # NaN /\ v \in values

\* Series.isin(values) for one cell
isin(v, values) == v \in values

\* Variant: an empty selection shows every record
filtered_or_all(rows, industries) ==
    IF industries = {} THEN rows
    ELSE SelectSeq(rows, LAMBDA r : r.industry \in industries)

\* data[data["Industry"].isin(industries)]
filtered(rows, industries) ==
    SelectSeq(rows, LAMBDA r : isin(r.industry, industries))

Count(col, v) == Cardinality({i \in 1..Len(col) : col[i] = v})

\* Variant: dropna=False, the missing value is a group of its own
Groups_keepna(col) == Range(col)

\* The groups value_counts() counts: dropna=True leaves the missing out.
Groups(col) == Range(col) \ {NaN}

\* value_counts() sorts the groups by descending count with pandas'
\* default sort kind, which is not stable: every order of the groups that
\* is descending in the count is a possible result.
RECURSIVE DescendingOrders(_, _)
DescendingOrders(col, G) ==
    IF G = {} THEN {<<>>}
    ELSE LET top == {g \in G : \A h \in G : Count(col, h) <= Count(col, g)}
         IN  UNION {{<<[value |-> g, count |-> Count(col, g)]>> \o o :
                        o \in DescendingOrders(col, G \ {g})} : g \in top}

\* Variant: sort=False, the groups in order of first appearance
value_counts_unsorted(col) ==
    LET u == SelectSeq(unique(col), LAMBDA v : v # NaN)
    IN  {[i \in 1..Len(u) |-> [value |-> u[i], count |-> Count(col, u[i])]]}

value_counts(col) == DescendingOrders(col, Groups(col))

\* data['Headquarters'].value_counts().head(5): the possible results
top_locations(rows) == {head(o, TopK) : o \in value_counts(Column(rows, "hq"))}

RECURSIVE SumRev(_)
SumRev(rows) ==
    IF rows = <<>> THEN 0
    ELSE rows[Len(rows)].rev + SumRev(SubSeq(rows, 1, Len(rows) - 1))

\* data.describe(), revenue column: count, sum (for the mean), min, max.
\* The standard deviation and the quartiles are not represented.
describe(rows) ==
    LET revs == {rows[i].rev : i \in 1..Len(rows)}
    IN  [count |-> Len(rows),
         sum |-> SumRev(rows),
         min |-> IF revs = {} THEN 0 ELSE CHOOSE x \in revs : \A y \in revs : x <= y,
         max |-> IF revs = {} THEN 0 ELSE CHOOSE x \in revs : \A y \in revs : y <= x]

\* lines 68-72: the first column whose lowercased name holds "name" or
\* "company"; <<>> stands for None
Matches(col) == Contains(lower(col), NameKey) \/ Contains(lower(col), CompanyKey)

\* Variant: the loop without its break, the last qualifying column wins
detect_last_company_col(columns) ==
    IF \E i \in 1..Len(columns) : Matches(columns[i])
    THEN columns[CHOOSE i \in 1..Len(columns) :
                    /\ Matches(columns[i])
                    /\ \A j \in (i + 1)..Len(columns) : ~Matches(columns[j])]
    ELSE <<>>

detect_company_col(columns) ==
    IF \E i \in 1..Len(columns) : Matches(columns[i])
    THEN columns[CHOOSE i \in 1..Len(columns) :
                    /\ Matches(columns[i])
                    /\ \A j \in 1..(i - 1) : ~Matches(columns[j])]
    ELSE <<>>

----------------------------------------------------------------------------
(* State of a script run. *)

EmptyFrame == [columns |-> <<>>, rows |-> <<>>]
EmptyCache == [k \in {} |-> EmptyFrame]
DefaultSession == [touched |-> FALSE, opts |-> <<>>, sel |-> {}]

EmptyOut ==
    [preview |-> <<>>,
     summary |-> [count |-> 0, sum |-> 0, min |-> 0, max |-> 0],
     options |-> <<>>,
     industries |-> {},
     filtered_data |-> <<>>,
     filtered_preview |-> <<>>,
     top_10 |-> <<>>,
     hue |-> <<>>,
     figwidth |-> 0,
     top_locations |-> <<>>]

\* st.cache_data: the key of a call is the hash of its argument, the
\* uploaded file's content or the path string
cache_key(up) == IF up # <<>> THEN <<"upload", up[1]>> ELSE <<"path">>
\* Variant: no memoization, every call runs the body
cache_miss_always(key) == FALSE
cache_hit(key) == key \in DOMAIN cache

\* A run that ends early: st.stop() or an uncaught exception.  A widget
\* the run did not reach loses its front-end state.
Halt(e) ==
    /\ pc' = "halted"
    /\ error' = e
    /\ session' = IF "filtered" \in shown THEN session ELSE DefaultSession

\* A new script run
Rerun ==
    /\ pc' = "load"
    /\ data' = EmptyFrame
    /\ company_col' = <<>>
    /\ error' = "none"
    /\ shown' = {}
    /\ out' = EmptyOut

Idle == pc \in {"done", "halted"}

----------------------------------------------------------------------------
(* The script run, step by step. *)

\* Variant: the outcome of a failed call is stored too
cache_after_storing_failure(key, r) == (key :> r.df) @@ cache

\* What st.cache_data holds after a call whose body returned r
cache_after(key, r) == IF r.ok THEN (key :> r.df) @@ cache ELSE cache

\* load_data(path_or_buffer) behind @st.cache_data (lines 48-53): a hit
\* returns the stored frame, a miss runs the body and stores what it
\* returns; an exception of the body stores nothing and ends the run.
Call_load_data(key, csv) ==
    IF cache_hit(key)
    THEN /\ data' = cache[key]
         /\ pc' = "detect"
         /\ UNCHANGED <<cache, first, reparsed, error, session>>
    ELSE LET r == load_data(csv)
         IN  /\ reparsed' = (reparsed \/ key \in DOMAIN first)
             /\ cache' = cache_after(key, r)
             /\ IF r.ok
                THEN /\ data' = r.df
                     /\ first' = IF key \in DOMAIN first THEN first
                                 ELSE (key :> r.df) @@ first
                     /\ pc' = "detect"
                     /\ UNCHANGED <<error, session>>
                ELSE /\ Halt(r.err)
                     /\ UNCHANGED <<data, first>>

\* lines 58-65
Load ==
    /\ pc = "load"
    /\ \/ /\ uploaded_file # <<>>
          /\ Call_load_data(cache_key(uploaded_file), uploaded_file[1])
       \/ /\ uploaded_file = <<>>
          /\ disk # <<>>
          /\ Call_load_data(cache_key(uploaded_file), disk[1])
       \/ /\ uploaded_file = <<>>
          /\ disk = <<>>
          /\ Halt("MissingInputError")
          /\ UNCHANGED <<data, cache, first, reparsed>>
    /\ UNCHANGED <<uploaded_file, disk, width, company_col, shown, out>>

\* Variant: the run goes on without a company column
not_found_never(col) == FALSE

\* line 73: `if not company_col`
not_found(col) == col = <<>>

\* lines 68-75
Detect ==
    /\ pc = "detect"
    /\ company_col' = detect_company_col(data.columns)
    /\ IF not_found(company_col')
       THEN Halt("SchemaError")
       ELSE /\ pc' = "preview"
            /\ UNCHANGED <<error, session>>
    /\ UNCHANGED <<uploaded_file, disk, cache, width, data, shown, out,
                   first, reparsed>>

\* line 89
Preview ==
    /\ pc = "preview"
    /\ out' = [out EXCEPT !.preview = head(data.rows, HeadN)]
    /\ shown' = shown \cup {"preview"}
    /\ pc' = "summary"
    /\ UNCHANGED <<uploaded_file, disk, cache, session, width, data,
                   company_col, error, first, reparsed>>

\* line 93
Summary ==
    /\ pc = "summary"
    /\ out' = [out EXCEPT !.summary = describe(data.rows)]
    /\ shown' = shown \cup {"summary"}
    /\ pc' = "filter"
    /\ UNCHANGED <<uploaded_file, disk, cache, session, width, data,
                   company_col, error, first, reparsed>>

\* st.multiselect(options=..., default=...): the user's selection while the
\* widget keeps its options, the default otherwise
multiselect(options, default) ==
    IF session.touched /\ session.opts = options THEN session.sel
    ELSE Range(default)

\* lines 95-99; data["Industry"] raises KeyError without the column
Filter ==
    /\ pc = "filter"
    /\ IF IndustryCol \notin Range(data.columns)
       THEN /\ Halt("KeyError")
            /\ UNCHANGED <<shown, out>>
       ELSE LET options == unique(Column(data.rows, "industry"))
                industries == multiselect(options, options)
                filtered_data == filtered(data.rows, industries)
            IN  /\ out' = [out EXCEPT !.options = options,
                                      !.industries = industries,
                                      !.filtered_data = filtered_data,
                                      !.filtered_preview = head(filtered_data, HeadN)]
                /\ shown' = shown \cup {"filtered"}
                /\ session' = IF session.touched /\ session.opts = options
                              THEN session ELSE DefaultSession
                /\ pc' = "scatter"
                /\ UNCHANGED error
    /\ UNCHANGED <<uploaded_file, disk, cache, width, data, company_col,
                   first, reparsed>>

\* Variant: the top-10 subset taken from the industry-filtered frame
top_10_from_filtered == out.filtered_data

\* line 104: the frame the top-10 subset is taken from
top_10_source == data.rows

\* lines 102-127
Scatter ==
    /\ pc = "scatter"
    /\ out' = [out EXCEPT !.top_10 = head(top_10_source, HeadN),
                          !.hue = company_col,
                          !.figwidth = width]
    /\ shown' = shown \cup {"scatter"}
    /\ pc' = "bar"
    /\ UNCHANGED <<uploaded_file, disk, cache, session, width, data,
                   company_col, error, first, reparsed>>

\* lines 137-161: the bar chart of top_10
Bar ==
    /\ pc = "bar"
    /\ shown' = shown \cup {"bar"}
    /\ pc' = "pie"
    /\ UNCHANGED <<uploaded_file, disk, cache, session, width, data,
                   company_col, error, out, first, reparsed>>

\* lines 170-193; data['Headquarters'] raises KeyError without the column
Pie ==
    /\ pc = "pie"
    /\ IF HeadquartersCol \notin Range(data.columns)
       THEN /\ Halt("KeyError")
            /\ UNCHANGED <<shown, out>>
       ELSE /\ \E tl \in top_locations(data.rows) :
                   out' = [out EXCEPT !.top_locations = tl]
            /\ shown' = shown \cup {"pie"}
            /\ pc' = "done"
            /\ UNCHANGED <<error, session>>
    /\ UNCHANGED <<uploaded_file, disk, cache, width, data, company_col,
                   first, reparsed>>

Cycle == Load \/ Detect \/ Preview \/ Summary \/ Filter \/ Scatter \/ Bar \/ Pie

----------------------------------------------------------------------------
(* Input files. *)

StdColumns == <<RankCol, NameCol, IndustryCol, RevenueCol, GrowthCol,
                HeadquartersCol>>

Row(i, rev, growth, industry, hq) ==
    [rank |-> i, rev |-> rev, growth |-> growth, industry |-> industry, hq |-> hq]

Csv(columns, rows) == [columns |-> columns, rows |-> rows]

GoodRev == <<"1", ",", "0", "0", "0">>
GoodGrowth == <<"5", "%">>
GoodRow(i) == Row(i, GoodRev, GoodGrowth, "Tech", "New York")

\* Every text over the alphabet up to MaxTextLen, the empty cell included,
\* and the texts the specification names.
Alphabet == {"0", "1", ",", "%", "x", "-", "."}
ShortTexts == UNION {[1..n -> Alphabet] : n \in 0..MaxTextLen}
NamedTexts ==
    {<<"1",",","2","3","4",",","5","6","7">>, <<"1","2",".","5","%">>,
     <<"a","b","c">>, <<"1",",","2",",","3","x">>,
     <<"1",",","0","0","0",",","0","0","0">>, <<"5","0","0",",","0","0","0">>,
     <<"5",".","0","%">>, <<"-","2",".","5","%">>, <<"8","9","%">>}
Texts == ShortTexts \cup NamedTexts

\* One varying cell, alone in its column or below a well-formed row.
NormFiles ==
    {Csv(StdColumns, <<Row(1, t, GoodGrowth, "Tech", "New York")>>) : t \in Texts}
    \cup {Csv(StdColumns, <<GoodRow(1), Row(2, t, GoodGrowth, "Retail", "London")>>) :
            t \in Texts}
    \cup {Csv(StdColumns, <<Row(1, GoodRev, t, "Tech", "New York")>>) : t \in Texts}
    \cup {Csv(StdColumns, <<GoodRow(1), Row(2, GoodRev, t, "Retail", "London")>>) :
            t \in Texts}

HQNames == <<"New York", "London", "Tokyo", "Paris", "Berlin", "Seoul",
             "Mumbai", "Bentonville">>
IndustryNames == <<"Tech", "Retail", "Energy">>
RevTexts == <<<<"2",",","5","0","0">>, <<"9",",","0","0","0">>, <<"7","0","0">>>>

Pattern(kind, i, m) ==
    CASE kind = "cyc" -> (i - 1) % m
      [] kind = "sq" -> ((i - 1) * (i - 1)) % m
      [] kind = "tri" -> ((i * (i - 1)) \div 2) % m

ViewRows(n, hkind, m, hgap, q, igap) ==
    [i \in 1..n |->
        Row(i, RevTexts[(i % 3) + 1], GoodGrowth,
            IF igap > 0 /\ i % igap = 0 THEN ""
            ELSE IndustryNames[Pattern("cyc", i, q) + 1],
            IF hgap > 0 /\ i % hgap = 0 THEN ""
            ELSE HQNames[Pattern(hkind, i, m) + 1])]

\* Files that vary the headquarters column.
HQFiles ==
    {Csv(StdColumns, ViewRows(n, k, m, g, 2, 0)) :
        n \in 0..MaxRows, k \in {"cyc", "sq", "tri"}, m \in 1..NumHQ, g \in {0, 3}}

\* Files that vary the industry column.
IndustryFiles ==
    {Csv(StdColumns, ViewRows(n, "cyc", 2, 0, q, g)) :
        n \in 0..MaxRows, q \in 1..3, g \in {0, 4}}

\* Files that vary the header.
LabelCols == {RankCol, NameCol, CompanyCol, FirmCol, UnnamedCol}
Labels == {<<>>} \cup {<<a>> : a \in LabelCols}
          \cup {p \in {<<a, b>> : a \in LabelCols, b \in LabelCols} : p[1] # p[2]}
Required == <<IndustryCol, RevenueCol, GrowthCol, HeadquartersCol>>
Without(cols, c) == SelectSeq(cols, LAMBDA x : x # c)
HeaderFiles ==
    {Csv(l \o Without(Required, d), <<GoodRow(1), GoodRow(2)>>) :
        l \in Labels, d \in {<<>>} \cup Range(Required)}
    \cup {Csv(Without(Required, d) \o l, <<GoodRow(1), GoodRow(2)>>) :
        l \in Labels, d \in {<<>>} \cup Range(Required)}

\* The selections a session can hold for a file: none, or any subset of
\* the file's industries.
Sessions(csv) ==
    LET opts == unique([i \in 1..Len(csv.rows) |-> TextCell(csv.rows[i].industry)])
    IN  {DefaultSession}
        \cup {[touched |-> TRUE, opts |-> opts, sel |-> S] : S \in SUBSET Range(opts)}

\* The files of an interactive session.
AcmeGlobex ==
    Csv(StdColumns,
        <<Row(1, <<"1",",","0","0","0",",","0","0","0">>, <<"5",".","0","%">>,
              "Tech", "New York"),
          Row(2, <<"5","0","0",",","0","0","0">>, <<"-","2",".","5","%">>,
              "Retail", "London")>>)
ThreeRows == Csv(<<CompanyCol>> \o Required, ViewRows(3, "cyc", 2, 0, 2, 0))
Malformed ==
    Csv(StdColumns, <<GoodRow(1), Row(2, <<"a","b","c">>, GoodGrowth, "Retail", "London")>>)
NoNameColumn == Csv(<<RankCol, FirmCol>> \o Required, <<GoodRow(1)>>)
NoIndustryColumn == Csv(Without(StdColumns, IndustryCol), <<GoodRow(1)>>)
AppFiles == {AcmeGlobex, ThreeRows, Malformed, NoNameColumn, NoIndustryColumn}

----------------------------------------------------------------------------
(* User interaction: each one is followed by a new script run. *)

Upload ==
    /\ Idle
    /\ \E f \in AppFiles :
          /\ uploaded_file # <<f>>
          /\ uploaded_file' = <<f>>
    /\ Rerun
    /\ UNCHANGED <<disk, cache, session, width, first, reparsed>>

RemoveUpload ==
    /\ Idle
    /\ uploaded_file # <<>>
    /\ uploaded_file' = <<>>
    /\ Rerun
    /\ UNCHANGED <<disk, cache, session, width, first, reparsed>>

\* The multiselect of line 95, once it is on the page
ChangeFilter ==
    /\ Idle
    /\ "filtered" \in shown
    /\ \E S \in SUBSET Range(out.options) :
          /\ S # out.industries
          /\ session' = [touched |-> TRUE, opts |-> out.options, sel |-> S]
    /\ Rerun
    /\ UNCHANGED <<uploaded_file, disk, cache, width, first, reparsed>>

\* The slider of line 108, once it is on the page.  The five other sliders
\* (lines 109, 142, 143, 175, 176) act the same way and are left out.
ChangeSlider ==
    /\ Idle
    /\ "scatter" \in shown
    /\ \E w \in {SliderMin, SliderDefault, SliderMax} :
          /\ w # width
          /\ width' = w
    /\ Rerun
    /\ UNCHANGED <<uploaded_file, disk, cache, session, first, reparsed>>

\* The file at default_path is written or removed outside the program.
WriteDefault ==
    /\ Idle
    /\ \E f \in AppFiles :
          /\ disk # <<f>>
          /\ disk' = <<f>>
    /\ UNCHANGED <<uploaded_file, cache, session, width, pc, data, company_col,
                   error, shown, out, first, reparsed>>

DeleteDefault ==
    /\ Idle
    /\ disk # <<>>
    /\ disk' = <<>>
    /\ UNCHANGED <<uploaded_file, cache, session, width, pc, data, company_col,
                   error, shown, out, first, reparsed>>

Interact == Upload \/ RemoveUpload \/ ChangeFilter \/ ChangeSlider
            \/ WriteDefault \/ DeleteDefault

----------------------------------------------------------------------------
(* Specifications. *)

Start ==
    /\ cache = EmptyCache
    /\ first = EmptyCache
    /\ reparsed = FALSE
    /\ width = SliderDefault
    /\ pc = "load"
    /\ data = EmptyFrame
    /\ company_col = <<>>
    /\ error = "none"
    /\ shown = {}
    /\ out = EmptyOut

\* A session: the script starts with no upload.
Init ==
    /\ uploaded_file = <<>>
    /\ disk \in {<<>>} \cup {<<f>> : f \in AppFiles}
    /\ session = DefaultSession
    /\ Start

Next == Cycle \/ Interact

Spec == Init /\ [][Next]_vars

\* One script run on each input of the families above.
CycleFiles == NormFiles \cup HQFiles \cup IndustryFiles \cup HeaderFiles

InitCycle ==
    /\ \/ /\ uploaded_file \in {<<f>> : f \in CycleFiles}
          /\ disk = <<>>
          /\ session \in IF uploaded_file[1] \in IndustryFiles
                         THEN Sessions(uploaded_file[1])
                         ELSE {DefaultSession}
       \/ /\ uploaded_file = <<>>
          /\ disk \in {<<>>} \cup {<<f>> : f \in AppFiles}
          /\ session = DefaultSession
    /\ Start

SpecCycle == InitCycle /\ [][Cycle]_vars

----------------------------------------------------------------------------
(* Vocabulary of the properties, stated without the operators of the      *)
(* program above.                                                         *)

\* The file the current run reads
Source == IF uploaded_file # <<>> THEN uploaded_file[1] ELSE disk[1]

HasSource == uploaded_file # <<>> \/ disk # <<>>

\* load_data returned a frame in this run
Accepted == pc # "load" /\ data.columns # <<>>

RECURSIVE Pow10(_)
Pow10(n) == IF n = 0 THEN 1 ELSE 10 * Pow10(n - 1)

RECURSIVE Deleting(_, _)
Deleting(t, c) ==
    IF t = <<>> THEN <<>>
    ELSE IF Head(t) = c THEN Deleting(Tail(t), c)
    ELSE <<Head(t)>> \o Deleting(Tail(t), c)

RECURSIVE PlaceValue(_)
PlaceValue(t) ==
    IF t = <<>> THEN 0
    ELSE DigitVal(Head(t)) * Pow10(Len(t) - 1) + PlaceValue(Tail(t))

Minus(t) == t # <<>> /\ Head(t) = "-"
Body(t) == IF Minus(t) THEN Tail(t) ELSE t

IsIntegerNumeral(t) ==
    /\ Body(t) # <<>>
    /\ \A i \in 1..Len(Body(t)) : Body(t)[i] \in Range(Digits)

IntegerOf(t) == IF Minus(t) THEN 0 - PlaceValue(Body(t)) ELSE PlaceValue(Body(t))

Points(t) == {i \in 1..Len(t) : t[i] = "."}

IsDecimalNumeral(t) ==
    /\ Cardinality(Points(Body(t))) <= 1
    /\ Deleting(Body(t), ".") # <<>>
    /\ \A i \in 1..Len(Body(t)) : Body(t)[i] \in Range(Digits) \cup {"."}

\* g is the number the decimal numeral t writes
Writes(t, g) ==
    LET b == Body(t)
        frac == IF Points(b) = {} THEN 0 ELSE Len(b) - (CHOOSE i \in Points(b) : TRUE)
        mant == IntegerOf(IF Minus(t) THEN <<"-">> \o Deleting(b, ".")
                          ELSE Deleting(b, "."))
    IN  /\ ~g.nan
        /\ g.m * Pow10(frac) = mant * Pow10(g.e)

SameRecords ==
    /\ Len(data.rows) = Len(Source.rows)
    /\ \A i \in 1..Len(data.rows) : data.rows[i].rank = Source.rows[i].rank

RevenueReads(i) ==
    /\ IsIntegerNumeral(Deleting(Source.rows[i].rev, ","))
    /\ data.rows[i].rev = IntegerOf(Deleting(Source.rows[i].rev, ","))

GrowthReads(i) ==
    /\ IsDecimalNumeral(Deleting(Source.rows[i].growth, "%"))
    /\ Writes(Deleting(Source.rows[i].growth, "%"), data.rows[i].growth)

----------------------------------------------------------------------------
(* C1 *)

----------------------------------------------------------------------------
(* C2 *)

BadRevenue(csv) ==
    \E i \in 1..Len(csv.rows) : ~IsIntegerNumeral(Deleting(csv.rows[i].rev, ","))
BadGrowth(csv) ==
    \E i \in 1..Len(csv.rows) : ~IsDecimalNumeral(Deleting(csv.rows[i].growth, "%"))
BadGrowthText(csv) ==
    \E i \in 1..Len(csv.rows) :
        /\ csv.rows[i].growth # <<>>
        /\ ~IsDecimalNumeral(Deleting(csv.rows[i].growth, "%"))

WholeTableFailure ==
    /\ pc = "halted"
    /\ error # "none"
    /\ data = EmptyFrame
    /\ shown = {}
    /\ cache_key(uploaded_file) \notin DOMAIN cache

----------------------------------------------------------------------------
(* C3 *)

TerminalErrors == {"MissingInputError", "FormatError", "SchemaError"}

HasWord(col, w) ==
    \E k \in 0..Len(col) :
        /\ k + Len(w) <= Len(col)
        /\ \A j \in 1..Len(w) : LowerChar(col[k + j]) = w[j]
Qualifies(col) == HasWord(col, NameKey) \/ HasWord(col, CompanyKey)

\* C3: a run in which one of the three errors occurred has halted and shows
\* no view, and a run that shows a view has loaded a frame and found a
\* company-name column.
C3_ErrorsHaltTheRun ==
    /\ error \in TerminalErrors => pc = "halted" /\ shown = {}
    /\ shown # {} => /\ data.columns # <<>>
                     /\ company_col \in Range(data.columns)
                     /\ Qualifies(company_col)

C3_Witness ==
    /\ error = "SchemaError"
    /\ pc = "halted"
    /\ data.rows # <<>>
    /\ shown = {}

----------------------------------------------------------------------------
(* C4 *)

\* C4: load_data's body never runs again for a source already loaded, the
\* cache still holds for every source the frame of its first load, and the
\* frame a run works on is that frame.
C4_ServedFromCache ==
    /\ ~reparsed
    /\ DOMAIN cache = DOMAIN first
    /\ \A k \in DOMAIN cache : cache[k] = first[k]
    /\ Accepted => /\ cache_key(uploaded_file) \in DOMAIN first
                   /\ data = first[cache_key(uploaded_file)]

\* The file at default_path was replaced after its first load and the run
\* still works on the frame of the first load, with views computed.
C4_Witness ==
    /\ pc = "done"
    /\ uploaded_file = <<>>
    /\ disk = <<AcmeGlobex>>
    /\ Len(data.rows) = 3
    /\ data = first[<<"path">>]

----------------------------------------------------------------------------
(* C5 *)

Detected == Accepted /\ pc # "detect"

\* C5: once the detection has run, company_col is the first column, in the
\* frame's column order, whose lowercased name holds "name" or "company",
\* whichever of the two it holds; the run halts with the schema error
\* exactly when no column qualifies.
C5_FirstQualifyingColumn ==
    Detected =>
        LET cols == data.columns
            Q == {i \in 1..Len(cols) : Qualifies(cols[i])}
        IN  /\ Q # {} => /\ company_col = cols[CHOOSE i \in Q : \A j \in Q : i <= j]
                         /\ error # "SchemaError"
            /\ Q = {} <=> (error = "SchemaError" /\ pc = "halted")

\* Two columns qualify, the first by "company", the second by "name".
C5_Witness ==
    /\ Detected
    /\ Len(data.columns) > 2
    /\ data.columns[1] = CompanyCol
    /\ data.columns[2] = NameCol
    /\ company_col = CompanyCol
    /\ pc = "preview"

----------------------------------------------------------------------------
(* C6 *)

\* C6: the filtered table holds exactly the records whose industry is in the
\* selected set, in the order of the frame; an empty selection gives an
\* empty table.
C6_ExactlyTheSelected ==
    "filtered" \in shown =>
        LET sub == out.filtered_data
        IN  /\ Range(sub) = {r \in Range(data.rows) : r.industry \in out.industries}
            /\ \A i \in 1..Len(sub) : \A j \in 1..Len(sub) :
                  i < j => sub[i].rank < sub[j].rank
            /\ out.industries = {} => sub = <<>>

C6_Witness ==
    /\ "filtered" \in shown
    /\ out.industries = {}
    /\ Len(data.rows) > HeadN
    /\ out.filtered_data = <<>>

----------------------------------------------------------------------------
(* C7 *)

Present(f) == {data.rows[i][f] : i \in 1..Len(data.rows)}

\* C7: with every distinct industry value of the frame selected, which is
\* what the multiselect holds by default, the filtered table has as many
\* records as the frame, repeated and missing values included.
C7_AllSelectedKeepsAll ==
    "filtered" \in shown =>
        /\ ~session.touched => out.industries = Present("industry")
        /\ out.industries = Present("industry")
              => Len(out.filtered_data) = Len(data.rows)

C7_Witness ==
    /\ "filtered" \in shown
    /\ ~session.touched
    /\ NaN \in out.industries
    /\ Cardinality(out.industries) < Len(data.rows)
    /\ Len(out.filtered_data) = Len(data.rows)
    /\ Len(data.rows) > HeadN

----------------------------------------------------------------------------
(* C8 *)

Records(f, v) == {i \in 1..Len(data.rows) : data.rows[i][f] = v}
Locations == Present("hq") \ {NaN}

RECURSIVE Total(_)
Total(tl) == IF tl = <<>> THEN 0 ELSE Head(tl).count + Total(Tail(tl))

CountsAreRight ==
    /\ Len(out.top_locations) <= TopK
    /\ \A k \in 1..Len(out.top_locations) :
          out.top_locations[k].count
              = Cardinality(Records("hq", out.top_locations[k].value))

\* C8, as stated: at most topK entries, each count the number of records
\* with that headquarters, and the counts sum to the number of records when
\* topK is at least the number of distinct headquarters.
C8_CountsSumToAll ==
    "pie" \in shown =>
        /\ CountsAreRight
        /\ TopK >= Cardinality(Locations)
              => Total(out.top_locations) = Len(data.rows)

\* C8, amended: the counts sum to the number of records whose headquarters
\* is not missing; a record without a headquarters is in no group.
C8_CountsSumToPresent ==
    "pie" \in shown =>
        /\ CountsAreRight
        /\ \A k \in 1..Len(out.top_locations) : out.top_locations[k].value # NaN
        /\ TopK >= Cardinality(Locations)
              => Total(out.top_locations)
                    = Cardinality({i \in 1..Len(data.rows) : data.rows[i].hq # NaN})

C8_Witness ==
    /\ "pie" \in shown
    /\ Cardinality(Locations) = TopK
    /\ NaN \in Present("hq")
    /\ Total(out.top_locations) < Len(data.rows)
    /\ Total(out.top_locations) > TopK

----------------------------------------------------------------------------
(* C9 *)

FirstAt(v) == CHOOSE i \in Records("hq", v) : \A j \in Records("hq", v) : i <= j
Size(v) == Cardinality(Records("hq", v))

\* g comes before h: a larger group, or an equal one that appears first
Before(g, h) == Size(g) > Size(h) \/ (Size(g) = Size(h) /\ FirstAt(g) < FirstAt(h))

\* C9, as stated: the result is the first topK groups in the order of
\* descending count, equal counts in the order of first appearance.
C9_TiesByFirstAppearance ==
    "pie" \in shown =>
        LET tl == out.top_locations
        IN  /\ Len(tl) = Min(TopK, Cardinality(Locations))
            /\ \A k \in 1..Len(tl) :
                  /\ tl[k].value \in Locations
                  /\ Cardinality({h \in Locations : Before(h, tl[k].value)}) = k - 1

\* C9, amended: the result is the first topK groups of an order of
\* descending count; the order among groups of equal count is not fixed.
C9_DescendingCount ==
    "pie" \in shown =>
        LET tl == out.top_locations
        IN  /\ Len(tl) = Min(TopK, Cardinality(Locations))
            /\ \A k \in 1..Len(tl) :
                  /\ tl[k].value \in Locations
                  /\ tl[k].count = Size(tl[k].value)
            /\ \A j \in 1..Len(tl) : \A k \in 1..Len(tl) :
                  j < k => tl[j].value # tl[k].value /\ tl[j].count >= tl[k].count
            /\ \A g \in Locations :
                  (\A k \in 1..Len(tl) : tl[k].value # g)
                      => \A k \in 1..Len(tl) : Size(g) <= tl[k].count

\* More groups than topK, of unequal sizes, and the largest does not
\* appear first in the frame.
C9_Witness ==
    /\ "pie" \in shown
    /\ Cardinality(Locations) > TopK
    /\ Len(out.top_locations) = TopK
    /\ out.top_locations[1].count > out.top_locations[TopK].count
    /\ FirstAt(out.top_locations[1].value) > 1

----------------------------------------------------------------------------
(* C10 *)

IsPrefix(sub, rows, n) ==
    /\ Len(sub) = Min(n, Len(rows))
    /\ \A i \in 1..Len(sub) : sub[i] = rows[i]

\* C10: the preview and the top-10 subset are each the first min(10, len)
\* records of the frame, which are the source's rows in the source's order,
\* whatever their revenues and whatever the industry filter holds.
C10_FirstTenInSourceOrder ==
    /\ "preview" \in shown => IsPrefix(out.preview, data.rows, HeadN)
    /\ "scatter" \in shown => IsPrefix(out.top_10, data.rows, HeadN)
    /\ Accepted => \A i \in 1..Len(data.rows) : data.rows[i].rank = Source.rows[i].rank

\* More than ten records, not in revenue order, and a filter that drops
\* some of the first ten.
C10_Witness ==
    /\ "scatter" \in shown
    /\ Len(data.rows) > HeadN
    /\ Len(out.top_10) = HeadN
    /\ out.top_10[1].rev > out.top_10[2].rev
    /\ out.top_10[2].rev < out.top_10[3].rev
    /\ \E i \in 1..HeadN : data.rows[i].industry \notin out.industries

====
